---- MODULE Spec2Model ----
(***************************************************************************)
(* AdEase training pipeline (src/training): segmentation of labelled       *)
(* regions into clips, per-clip audio feature extraction, model export     *)
(* and the scoring done by the test-model command.                         *)
(*                                                                         *)
(* Times are whole seconds.  The pipeline's entry points share no state at *)
(* run time; `cmd` names the one a behaviour is running, and each has its  *)
(* own specification (SpecSegment, SpecSample, SpecFeatures, SpecProcess,  *)
(* SpecTrainer, SpecScore; SpecSegmentLive is SpecSegment with fairness).  *)
(* Spec is their disjoint union.                                           *)
(***************************************************************************)
EXTENDS Integers, Sequences, FiniteSets, TLC

VARIABLES
    cmd,            \* entry point being run
    \* ---- VideoProcessor._extract_clips ----
    seg_pc,         \* "idle" | "loop" | "done"
    seg_outcome,    \* "running" | "returned" | "raised"
    start_time,     \* argument
    end_time,       \* argument
    clip_duration,  \* argument
    category,       \* argument
    base_name,      \* argument
    current_time,   \* local
    clip_index,     \* local
    clips,          \* local, the returned list
    attempted,      \* history: every window handed to ffmpeg, with its outcome
    \* ---- VideoProcessor.extract_audio_features ----
    fe_pc,          \* "idle" | "call" | "done"
    fe_outcome,     \* "running" | "returned" | "raised"
    clip_paths,     \* argument
    label,          \* argument
    clip_audio,     \* the files: what decoding and analysing each clip gives
    features_df,    \* the returned DataFrame, a sequence of rows
    \* ---- train_pipeline.test_model ----
    sc_pc,          \* "idle" | "call" | "done"
    sc_outcome,     \* "pending" | "prediction" | "dimension_mismatch" | "crash"
    model,          \* the artifact loaded from --model-path
    features,       \* the feature vector computed from the video
    normalized_features, \* local
    score,          \* locals weighted_sum, linear_combination, probability
    prediction,     \* "none" | "AD" | "PROGRAM", as printed
    confidence,     \* the "Confidence:" line: whether printed, and the value
    \* ---- AdDetectorTrainer ----
    tr_pc,          \* "idle" | "ready"
    feature_names,  \* self.feature_names
    scaler,         \* self.scaler
    models,         \* self.models
    X_train,        \* the caller's X_train, as prepare_data last returned it
    exported,       \* the artifacts written by create_simple_js_model
    prepared,       \* history: number of prepare_data calls so far
    calls,          \* history: number of calls made on the trainer
    \* ---- train_pipeline.process_video ----
    pv_pc,          \* "idle" | "segment" | "ad_features" | "program_features"
                    \* | "combine" | "done"
    pv_outcome,     \* "running" | "completed" | "raised"
    timestamps,     \* the annotations loaded from timestamps_path
    pv_clip_duration, \* option --clip-duration
    generated_clips,  \* local `clips`: the dict of clip paths per category
    ffmpeg_failed,  \* history: the windows whose extraction failed
    file_audio,     \* history: what decoding and analysing each clip gave
    ad_features,    \* local, a DataFrame
    program_features, \* local, a DataFrame
    combined_features_csv \* the file features/combined_features.csv

segVars == <<seg_pc, seg_outcome, start_time, end_time, clip_duration, category,
             base_name, current_time, clip_index, clips, attempted>>

feVars == <<fe_pc, fe_outcome, clip_paths, label, clip_audio, features_df>>

scVars == <<sc_pc, sc_outcome, model, features, normalized_features, score,
            prediction, confidence>>

trVars == <<tr_pc, feature_names, scaler, models, X_train, exported, prepared,
            calls>>

pvVars == <<pv_pc, pv_outcome, timestamps, pv_clip_duration, generated_clips,
            ffmpeg_failed, file_audio, ad_features, program_features,
            combined_features_csv>>

vars == <<cmd, segVars, feVars, scVars, trVars, pvVars>>

----------------------------------------------------------------------------
(* Bounds of the model *)

MaxStart == 2
MaxEnd == 14
MaxClipDuration == 5
MaxClips == 3
MaxFeature == 2
MaxCalls == 5
MaxFailures == 1

(* Program constants *)

MinClipSeconds == 3
NMfcc == 13
DefaultClipDuration == 10

----------------------------------------------------------------------------
(* Helpers *)

Min(a, b) == IF a < b THEN a ELSE b

RECURSIVE SumLen(_)
SumLen(s) == IF s = << >> THEN 0 ELSE Head(s).t + SumLen(Tail(s))

Abs(x) == IF x < 0 THEN 0 - x ELSE x

RECURSIVE Gcd(_, _)
Gcd(a, b) == IF b = 0 THEN a ELSE Gcd(b, a % b)

----------------------------------------------------------------------------
(* Floating-point values of test_model: a finite value is an exact fraction
   n/d in lowest terms with d > 0; the non-finite ones are +inf, -inf and
   NaN, with the IEEE rules numpy scalars follow (division by zero gives an
   infinity or NaN and a warning, not an exception). *)

Rat(n, d) ==
    LET sg == IF d < 0 THEN 0 - 1 ELSE 1
        g == Gcd(Abs(n), Abs(d))
    IN  [k |-> "fin", n |-> (sg * n) \div g, d |-> (sg * d) \div g]

PosInf == [k |-> "inf", n |-> 1, d |-> 0]
NegInf == [k |-> "inf", n |-> 0 - 1, d |-> 0]
NaN == [k |-> "nan", n |-> 0, d |-> 0]
Zero == Rat(0, 1)
Half == Rat(1, 2)

IsFinite(a) == a.k = "fin"

Sign(a) == IF a.n > 0 THEN 1 ELSE IF a.n < 0 THEN 0 - 1 ELSE 0

SignedInf(sg) == IF sg > 0 THEN PosInf ELSE NegInf

FNeg(a) == [a EXCEPT !.n = 0 - a.n]

FAdd(a, b) ==
    IF a.k = "nan" \/ b.k = "nan" THEN NaN
    ELSE IF a.k = "inf" /\ b.k = "inf" THEN (IF a.n = b.n THEN a ELSE NaN)
    ELSE IF a.k = "inf" THEN a
    ELSE IF b.k = "inf" THEN b
    ELSE Rat(a.n * b.d + b.n * a.d, a.d * b.d)

FSub(a, b) == FAdd(a, FNeg(b))

FMul(a, b) ==
    IF a.k = "nan" \/ b.k = "nan" THEN NaN
    ELSE IF a.k = "inf" \/ b.k = "inf"
         THEN (IF Sign(a) * Sign(b) = 0 THEN NaN ELSE SignedInf(Sign(a) * Sign(b)))
    ELSE Rat(a.n * b.n, a.d * b.d)

FDiv(a, b) ==
    IF a.k = "nan" \/ b.k = "nan" THEN NaN
    ELSE IF a.k = "inf" THEN (IF b.k = "inf" THEN NaN
                              ELSE IF Sign(b) < 0 THEN FNeg(a) ELSE a)
    ELSE IF b.k = "inf" THEN Zero
    ELSE IF b.n = 0 THEN (IF a.n = 0 THEN NaN ELSE SignedInf(Sign(a)))
    ELSE Rat(a.n * b.d, a.d * b.n)

\* a > b; every comparison with NaN is false
FGt(a, b) ==
    IF a.k = "nan" \/ b.k = "nan" THEN FALSE
    ELSE IF a.k = "inf" THEN a.n > 0 /\ ~(b.k = "inf" /\ b.n > 0)
    ELSE IF b.k = "inf" THEN b.n < 0
    ELSE a.n * b.d > b.n * a.d

\* e^(q/4) in thousandths, by repeated multiplication with e^(1/4) = 1.284
RECURSIVE ExpQuarters(_)
ExpQuarters(q) == IF q = 0 THEN 1000 ELSE (ExpQuarters(q - 1) * 1284) \div 1000

\* np.exp(x) in thousandths for a finite x = q/4; beyond |x| = 8 the result
\* is 0 or too large to matter at this resolution
ExpThousandths(x) ==
    LET q == (x.n * 4) \div x.d
    IN  IF q >= 0 THEN ExpQuarters(Min(q, 32))
        ELSE 1000000 \div ExpQuarters(Min(0 - q, 32))

\* np.exp on any value
FExp(x) ==
    IF x.k = "nan" THEN NaN
    ELSE IF x.k = "inf" THEN (IF x.n > 0 THEN PosInf ELSE Zero)
    ELSE Rat(ExpThousandths(x), 1000)

----------------------------------------------------------------------------
\* video_processor.py:105: f"{clip_index:03d}", at least three digits
Format03d(i) ==
    IF i < 10 THEN "00" \o ToString(i)
    ELSE IF i < 100 THEN "0" \o ToString(i)
    ELSE ToString(i)

\* video_processor.py:105: output_dir / category / f"{base_name}_{clip_index:03d}.mp4"
\* (relative to output_dir)
OutputPath(cat, base, idx) == cat \o "/" \o base \o "_" \o Format03d(idx) \o ".mp4"

\* clip files on disk that a list of clip paths may name
ClipFiles ==
    {OutputPath("ads", "ad_video_0", 0),
     OutputPath("ads", "ad_video_0", 1),
     OutputPath("program", "program_video_0", 0)}

----------------------------------------------------------------------------
(* State of the entry points that are not running *)

\* _extract_clips has not been called
SegIdle ==
    /\ seg_pc = "idle"
    /\ seg_outcome = "running"
    /\ start_time = 0
    /\ end_time = 0
    /\ clip_duration = 0
    /\ category = "ads"
    /\ base_name = "ad_video_0"
    /\ current_time = 0
    /\ clip_index = 0
    /\ clips = << >>
    /\ attempted = << >>

\* extract_audio_features has not been called
FeIdle ==
    /\ fe_pc = "idle"
    /\ fe_outcome = "running"
    /\ clip_paths = << >>
    /\ label = "ad"
    /\ clip_audio = [f \in ClipFiles |-> "ok"]
    /\ features_df = << >>

\* no artifact loaded
NoModel ==
    [type |-> "none", feature_names |-> << >>, scaler_mean |-> << >>,
     scaler_scale |-> << >>, feature_importances |-> << >>, threshold |-> Zero,
     coefficients |-> << >>, intercept |-> 0]

\* locals of test_model not yet assigned
NoScore == [weighted_sum |-> Zero, linear_combination |-> Zero, probability |-> Zero]

NoConfidence == [printed |-> FALSE, value |-> Zero]

\* test_model has not been called
ScIdle ==
    /\ sc_pc = "idle"
    /\ sc_outcome = "pending"
    /\ model = NoModel
    /\ features = << >>
    /\ normalized_features = << >>
    /\ score = NoScore
    /\ prediction = "none"
    /\ confidence = NoConfidence

\* model_trainer.py:97, 128: the keys create_simple_js_model can export
ModelNames == {"random_forest", "logistic_regression"}

\* model_trainer.py:31: StandardScaler() before any fit
UnfittedScaler == [fitted |-> FALSE, mean_ |-> << >>, scale_ |-> << >>]

\* model_trainer.py:32: self.models = {} (a name maps to an untrained entry)
NoModels ==
    [name \in ModelNames |-> [trained |-> FALSE, weights |-> << >>, at |-> 0]]

NoData == [table |-> "none", columns |-> << >>]

\* model_trainer.py:27-33: no trainer in use
TrIdle ==
    /\ tr_pc = "idle"
    /\ feature_names = << >>
    /\ scaler = UnfittedScaler
    /\ models = NoModels
    /\ X_train = NoData
    /\ exported = {}
    /\ prepared = 0
    /\ calls = 0

\* no table has been written
NoFile == [exists |-> FALSE, rows |-> << >>]

\* process_video has not been called
PvIdle ==
    /\ pv_pc = "idle"
    /\ pv_outcome = "running"
    /\ timestamps = [ads |-> << >>, program |-> << >>]
    /\ pv_clip_duration = 0
    /\ generated_clips = [ads |-> << >>, program |-> << >>]
    /\ ffmpeg_failed = {}
    /\ file_audio = << >>
    /\ ad_features = << >>
    /\ program_features = << >>
    /\ combined_features_csv = NoFile

----------------------------------------------------------------------------
(* VideoProcessor._extract_clips, video_processor.py:84-130 *)

StartTimes == 0..MaxStart
EndTimes == 0..MaxEnd
ClipDurations == (0 - 1)..MaxClipDuration
Categories == {"ads", "program"}

\* the callers of _extract_clips that are modelled: a call with any small
\* region, and process_video_with_timestamps on a region of the sample file
SegCmds == {"extract_clips", "sample_timestamps"}

\* line 99 with the clamping min() dropped
ClipEndUnclamped(cur, c, e) == cur + c

\* line 99: clip_end = min(current_time + clip_duration, end_time)
ClipEnd(cur, c, e) == Min(cur + c, e)

\* line 102 with the floor test dropped
TooShortNever(t) == FALSE

\* line 102: if clip_end - current_time < 3
TooShort(t) == t < MinClipSeconds

\* line 128 leaving the cursor where it is
AdvanceNever(cur, c) == cur

\* line 128: current_time += clip_duration
Advance(cur, c) == cur + c

\* lines 122-126 with the index counting every attempt
NextIndexAlways(idx, ok) == idx + 1

\* lines 122-126: clip_index += 1 after a successful run, untouched by a
\* failed one
NextIndex(idx, ok) == IF ok THEN idx + 1 ELSE idx

\* lines 94-96: state on entry to the while loop
SegInit ==
    /\ cmd = "extract_clips"
    /\ seg_pc = "loop"
    /\ seg_outcome = "running"
    /\ start_time \in StartTimes
    /\ end_time \in EndTimes
    /\ clip_duration \in ClipDurations
    /\ category \in Categories
    /\ base_name = (IF category = "ads" THEN "ad_video_0" ELSE "program_video_0")
    /\ current_time = start_time
    /\ clip_index = 0
    /\ clips = << >>
    /\ attempted = << >>
    /\ FeIdle
    /\ ScIdle
    /\ TrIdle
    /\ PvIdle

\* the number of failed ffmpeg runs among the windows attempted so far
RECURSIVE Failures(_)
Failures(att) ==
    IF att = << >> THEN 0
    ELSE (IF Head(att).ok THEN 0 ELSE 1) + Failures(Tail(att))

\* lines 107-126: what the ffmpeg run of the next window can give; on the
\* long regions of the sample file only MaxFailures runs fail
FfmpegResults ==
    IF cmd = "sample_timestamps" /\ Failures(attempted) >= MaxFailures
    THEN {TRUE}
    ELSE BOOLEAN

\* lines 98-128: one pass through the loop body that reaches ffmpeg
ExtractClipsIter ==
    /\ cmd \in SegCmds
    /\ seg_pc = "loop"
    /\ current_time < end_time
    /\ LET clip_end == ClipEnd(current_time, clip_duration, end_time)
           t == clip_end - current_time
           output_path == OutputPath(category, base_name, clip_index)
       IN  /\ ~TooShort(t)
           /\ \E ok \in FfmpegResults :
                /\ attempted' = Append(attempted,
                                   [ss |-> current_time, t |-> t, ok |-> ok])
                /\ clips' = (IF ok
                              THEN Append(clips, [path |-> output_path,
                                                  ss |-> current_time, t |-> t])
                              ELSE clips)
                /\ clip_index' = NextIndex(clip_index, ok)
           /\ current_time' = Advance(current_time, clip_duration)
    /\ UNCHANGED <<cmd, seg_pc, seg_outcome, start_time, end_time, clip_duration,
                   category, base_name>>
    /\ UNCHANGED <<feVars, scVars, trVars, pvVars>>

\* lines 98, 102-103, 130: the loop condition fails or the break is taken
ExtractClipsReturn ==
    /\ cmd \in SegCmds
    /\ seg_pc = "loop"
    /\ \/ ~(current_time < end_time)
       \/ TooShort(ClipEnd(current_time, clip_duration, end_time) - current_time)
    /\ seg_pc' = "done"
    /\ seg_outcome' = "returned"
    /\ UNCHANGED <<cmd, start_time, end_time, clip_duration, category, base_name,
                   current_time, clip_index, clips, attempted>>
    /\ UNCHANGED <<feVars, scVars, trVars, pvVars>>

SegNext == ExtractClipsIter \/ ExtractClipsReturn

SpecSegment == SegInit /\ [][SegNext]_vars

\* the call keeps running until it returns: the loop is the only thread, and
\* every ffmpeg run ends, by returning or by raising ffmpeg.Error
SpecSegmentLive == SegInit /\ [][SegNext]_vars /\ WF_vars(SegNext)

\* video_processor.py:231-247: the regions of create_sample_timestamps
SampleTimestamps ==
    [ads |-> <<[start |-> 300, end |-> 480], [start |-> 900, end |-> 1080],
               [start |-> 1500, end |-> 1680], [start |-> 2100, end |-> 2280],
               [start |-> 2700, end |-> 2880]>>,
     program |-> <<[start |-> 0, end |-> 300], [start |-> 480, end |-> 900],
                   [start |-> 1080, end |-> 1500], [start |-> 1680, end |-> 2100],
                   [start |-> 2280, end |-> 2700], [start |-> 2880, end |-> 3600]>>]

\* two further annotated regions, with a 5 s and a 2 s remainder
RemainderRegions == {[start |-> 0, end |-> 305], [start |-> 0, end |-> 302]}

\* video_processor.py:60-67, 72-79: the calls of _extract_clips for a
\* timestamp file holding the sample regions and the two others, with the
\* default clip duration; state on entry to the while loop
SampleInit ==
    /\ cmd = "sample_timestamps"
    /\ seg_pc = "loop"
    /\ seg_outcome = "running"
    /\ clip_duration = DefaultClipDuration
    /\ \/ \E i \in 1..Len(SampleTimestamps.ads) :
            /\ start_time = SampleTimestamps.ads[i].start
            /\ end_time = SampleTimestamps.ads[i].end
            /\ category = "ads"
            /\ base_name = "ad_video_" \o ToString(i - 1)
       \/ \E i \in 1..Len(SampleTimestamps.program) :
            /\ start_time = SampleTimestamps.program[i].start
            /\ end_time = SampleTimestamps.program[i].end
            /\ category = "program"
            /\ base_name = "program_video_" \o ToString(i - 1)
       \/ \E r \in RemainderRegions :
            /\ start_time = r.start
            /\ end_time = r.end
            /\ category = "ads"
            /\ base_name = "ad_video_0"
    /\ current_time = start_time
    /\ clip_index = 0
    /\ clips = << >>
    /\ attempted = << >>
    /\ FeIdle
    /\ ScIdle
    /\ TrIdle
    /\ PvIdle

SpecSample == SampleInit /\ [][SegNext]_vars

----------------------------------------------------------------------------
(* Properties of _extract_clips *)

RegionDuration == end_time - start_time

AllSucceeded == \A i \in 1..Len(attempted) : attempted[i].ok

RECURSIVE SuccessfulWindows(_)
SuccessfulWindows(att) ==
    IF att = << >> THEN << >>
    ELSE IF Head(att).ok
         THEN <<[ss |-> Head(att).ss, t |-> Head(att).t]>>
                  \o SuccessfulWindows(Tail(att))
         ELSE SuccessfulWindows(Tail(att))

WindowsOf(cs) == [i \in 1..Len(cs) |-> [ss |-> cs[i].ss, t |-> cs[i].t]]

\* C1 (as claimed): with D >= c > 0 and every extraction succeeding, the call
\* returns floor(D/c) windows of length c, plus one trailing window of length
\* D mod c exactly when that remainder is at least 3 seconds.
C1_FloorWindowsPlusTail ==
    (/\ seg_pc = "done"
     /\ clip_duration > 0
     /\ RegionDuration >= clip_duration
     /\ AllSucceeded)
    => LET full == RegionDuration \div clip_duration
           rem == RegionDuration % clip_duration
           n == full + (IF rem >= 3 THEN 1 ELSE 0)
       IN  /\ Len(clips) = n
           /\ \A i \in 1..n :
                clips[i].t = (IF i <= full THEN clip_duration ELSE rem)

\* C5 (as claimed): a clip duration <= 0 aborts the call with an error before
\* any clip is extracted; no list of clips is returned.
C5_NonPositiveDurationFailsFast ==
    (seg_pc = "done" /\ clip_duration <= 0)
    => (seg_outcome = "raised" /\ attempted = << >>)

\* C13: with clip_duration 10 and every extraction succeeding, region
\* {300, 480} gives exactly 18 windows of 10 s, back to back, and nothing of
\* the region is dropped; region {0, 305} gives 30 windows of 10 s and then
\* the 5 s window starting at 300, which is kept; region {0, 302} gives 30
\* windows of 10 s and its last 2 s are dropped.
C13_SampleRegions ==
    (/\ seg_pc = "done"
     /\ clip_duration = 10
     /\ AllSucceeded)
    => /\ (start_time = 300 /\ end_time = 480) =>
            /\ Len(clips) = 18
            /\ \A i \in 1..18 :
                 clips[i].t = 10 /\ clips[i].ss = 300 + 10 * (i - 1)
            /\ start_time + SumLen(clips) = end_time
       /\ (start_time = 0 /\ end_time = 305) =>
            /\ Len(clips) = 31
            /\ \A i \in 1..30 :
                 clips[i].t = 10 /\ clips[i].ss = 10 * (i - 1)
            /\ clips[31].ss = 300 /\ clips[31].t = 5
       /\ (start_time = 0 /\ end_time = 302) =>
            /\ Len(clips) = 30
            /\ \A i \in 1..30 :
                 clips[i].t = 10 /\ clips[i].ss = 10 * (i - 1)
            /\ end_time - (start_time + SumLen(clips)) = 2

\* C13 witness: the call for region {0, 305} has returned with every
\* extraction succeeded and the 5 s window at the end of the list.
C13_Witness ==
    /\ seg_pc = "done"
    /\ start_time = 0
    /\ end_time = 305
    /\ AllSucceeded
    /\ Len(clips) = 31
    /\ clips[31].t = 5

\* C14: for every region, every clip duration (positive, zero or negative)
\* and every pattern of failed extractions the loop of _extract_clips ends
\* and the call returns; once the cursor has reached region.end or less than
\* 3 s of the region remain, the next step is the return, with no further
\* window attempted; and no window is tried twice: every attempt, failed or
\* not, moves the cursor forward by clip_duration >= 3, so that the number
\* of attempts stays below D / clip_duration + 1.
C14_LoopTerminates ==
    /\ <>(seg_pc = "done" /\ seg_outcome = "returned")
    /\ [](Len(attempted) > 0 =>
            /\ clip_duration >= MinClipSeconds
            /\ current_time = start_time + Len(attempted) * clip_duration
            /\ (Len(attempted) - 1) * clip_duration < RegionDuration)
    /\ [][(/\ seg_pc = "loop"
            /\ \/ current_time >= end_time
               \/ end_time - current_time < MinClipSeconds)
           => (seg_pc' = "done" /\ attempted' = attempted)]_vars
    /\ [][attempted' # attempted
           => (/\ Len(attempted') = Len(attempted) + 1
               /\ current_time' > current_time
               /\ attempted'[Len(attempted')].ss = current_time)]_vars

\* C14 witness: a call in which an extraction failed has returned, having
\* stopped at a remaining span of 1 or 2 s.
C14_Witness ==
    /\ seg_pc = "done"
    /\ Failures(attempted) >= 1
    /\ end_time - current_time \in {1, 2}

\* C8 (as claimed): the returned windows lie inside the region, do not overlap,
\* are contiguous from region.start, their lengths sum to at most the region
\* duration, and what is left uncovered is only the short (< 3 s) tail.
\* Stated here for clip durations of at least 3 s, where the loop does attempt
\* every full window, so that a violation rests on nothing but the claim.
C8_EmittedContiguous ==
    (seg_pc = "done" /\ end_time > start_time /\ clip_duration >= MinClipSeconds)
    => /\ \A i \in 1..Len(clips) :
            clips[i].ss >= start_time /\ clips[i].ss + clips[i].t <= end_time
       /\ Len(clips) > 0 => clips[1].ss = start_time
       /\ \A i \in 1..(Len(clips) - 1) :
            clips[i + 1].ss = clips[i].ss + clips[i].t
       /\ SumLen(clips) <= RegionDuration
       /\ RegionDuration - SumLen(clips) < MinClipSeconds

\* C8 (amended): the returned windows lie inside the region, are at least 3 s
\* and at most clip_duration long and do not overlap; the windows handed to
\* ffmpeg are contiguous from region.start and the returned ones are exactly
\* those whose extraction succeeded, in order; their lengths sum to at most
\* the region duration; on return the uncovered part of the region is the
\* failed windows plus the tail at which the loop stopped, whose next window
\* min(clip_duration, remaining) would be shorter than 3 s.
C8_WindowsInsideDisjoint ==
    /\ \A i \in 1..Len(clips) :
         /\ clips[i].ss >= start_time
         /\ clips[i].ss + clips[i].t <= end_time
         /\ clips[i].t >= MinClipSeconds
         /\ clips[i].t <= clip_duration
    /\ \A i, j \in 1..Len(clips) :
         i < j => clips[i].ss + clips[i].t <= clips[j].ss
    /\ Len(attempted) > 0 => attempted[1].ss = start_time
    /\ \A i \in 1..(Len(attempted) - 1) :
         attempted[i + 1].ss = attempted[i].ss + attempted[i].t
    /\ WindowsOf(clips) = SuccessfulWindows(attempted)
    /\ end_time >= start_time => SumLen(clips) <= RegionDuration
    /\ seg_pc = "done" =>
         LET covered == start_time + SumLen(attempted)
             tail == end_time - covered
         IN  \/ tail <= 0
             \/ Min(clip_duration, tail) < MinClipSeconds

\* C8 witness: a returned list with a gap left by a failed extraction and a
\* dropped tail.
C8_Witness ==
    /\ seg_pc = "done"
    /\ Len(clips) >= 2
    /\ \E i \in 1..(Len(clips) - 1) : clips[i + 1].ss > clips[i].ss + clips[i].t
    /\ start_time + SumLen(attempted) < end_time

\* the starts of the windows of the region that are long enough to be cut:
\* start_time + k * clip_duration for as long as min(clip_duration, rest) >= 3
CuttableStarts ==
    IF clip_duration < MinClipSeconds THEN {}
    ELSE {ss \in start_time..(end_time - MinClipSeconds) :
              (ss - start_time) % clip_duration = 0}

\* C15: whatever extractions fail, the returned clips carry the indices
\* 0, 1, ..., n-1 in list order (the i-th path is the one formatted from
\* index i-1), in order of increasing window start; their paths are pairwise
\* distinct; a failed extraction consumes no index (the next index is the
\* number of clips returned so far, which is the number of successful
\* attempts); and on return every window of the region that is long enough
\* has been attempted, those after a failure included.
C15_IndicesAndPaths ==
    /\ clip_index = Len(clips)
    /\ Len(clips) = Len(attempted) - Failures(attempted)
    /\ \A i \in 1..Len(clips) :
         clips[i].path = OutputPath(category, base_name, i - 1)
    /\ \A i, j \in 1..Len(clips) :
         i < j => (clips[i].ss < clips[j].ss /\ clips[i].path # clips[j].path)
    /\ seg_pc = "done" =>
         {attempted[i].ss : i \in 1..Len(attempted)} = CuttableStarts

\* C15 witness: a call has returned two clips or more, the extraction of an
\* earlier window having failed.
C15_Witness ==
    /\ seg_pc = "done"
    /\ Len(clips) >= 2
    /\ \E i \in 1..Len(attempted) : ~attempted[i].ok /\ attempted[i].ss < clips[1].ss

----------------------------------------------------------------------------
(* VideoProcessor.extract_audio_features and _extract_single_clip_features,
   video_processor.py:132-210 *)

\* what loading and analysing a clip file can give:
\*   "ok"            features computed, all finite
\*   "nan"           features computed, some statistic is NaN
\*   "empty"         librosa.load returns an empty buffer (line 166)
\*   "decode_error"  librosa.load raises (line 164)
\*   "feature_error" a librosa.feature call raises (lines 170-187)
AudioOutcomes == {"ok", "nan", "empty", "decode_error", "feature_error"}

Labels == {"ad", "program"}

\* lines 171-174: f'mfcc_{i}_mean' for i in range(13)
MfccMeanNames == [i \in 1..NMfcc |-> "mfcc_" \o ToString(i - 1) \o "_mean"]

\* lines 175-178: f'mfcc_{i}_std' for i in range(13)
MfccStdNames == [i \in 1..NMfcc |-> "mfcc_" \o ToString(i - 1) \o "_std"]

\* lines 190-204: key order of the features dict
SingleClipFeatureNames ==
    MfccMeanNames \o MfccStdNames \o
    <<"spectral_centroid_mean", "spectral_centroid_std",
      "spectral_rolloff_mean", "spectral_rolloff_std",
      "spectral_bandwidth_mean", "spectral_bandwidth_std",
      "zero_crossing_rate_mean", "zero_crossing_rate_std",
      "tempo", "audio_length", "audio_rms">>

\* lines 160-210: None (ok = FALSE) or the features dict of the clip
ExtractSingleClipFeatures(clip_path, audio) ==
    IF audio[clip_path] \in {"empty", "decode_error", "feature_error"}
    THEN [ok |-> FALSE, names |-> << >>, audio |-> clip_path, nan |-> FALSE]
    ELSE [ok |-> TRUE, names |-> SingleClipFeatureNames, audio |-> clip_path,
          nan |-> (audio[clip_path] = "nan")]

\* lines 149-151: the dict with 'label' and 'clip_path' added, as a row
FeatureRow(feats, lbl, clip_path) ==
    [columns |-> feats.names \o <<"label", "clip_path">>,
     audio |-> feats.audio,
     nan |-> feats.nan,
     label |-> lbl,
     clip_path |-> clip_path]

\* lines 145-153 abandoning the batch at the first clip that gives no features
RECURSIVE ExtractAudioFeaturesAborting(_, _, _)
ExtractAudioFeaturesAborting(paths, lbl, audio) ==
    IF paths = << >> THEN << >>
    ELSE LET feats == ExtractSingleClipFeatures(Head(paths), audio)
         IN  IF feats.ok
             THEN <<FeatureRow(feats, lbl, Head(paths))>>
                      \o ExtractAudioFeaturesAborting(Tail(paths), lbl, audio)
             ELSE << >>

\* lines 143-158: the rows of the returned DataFrame (none: the empty frame)
RECURSIVE ExtractAudioFeatures(_, _, _)
ExtractAudioFeatures(paths, lbl, audio) ==
    IF paths = << >> THEN << >>
    ELSE LET feats == ExtractSingleClipFeatures(Head(paths), audio)
             rest == ExtractAudioFeatures(Tail(paths), lbl, audio)
         IN  IF feats.ok
             THEN <<FeatureRow(feats, lbl, Head(paths))>> \o rest
             ELSE rest

ClipPathLists == UNION {[1..n -> ClipFiles] : n \in 0..MaxClips}

FeInit ==
    /\ cmd = "extract_audio_features"
    /\ fe_pc = "call"
    /\ fe_outcome = "running"
    /\ clip_paths \in ClipPathLists
    /\ label \in Labels
    /\ clip_audio \in [ClipFiles -> AudioOutcomes]
    /\ features_df = << >>
    /\ SegIdle
    /\ ScIdle
    /\ TrIdle
    /\ PvIdle

\* lines 132-158: the whole call
ExtractAudioFeaturesCall ==
    /\ cmd = "extract_audio_features"
    /\ fe_pc = "call"
    /\ features_df' = ExtractAudioFeatures(clip_paths, label, clip_audio)
    /\ fe_outcome' = "returned"
    /\ fe_pc' = "done"
    /\ UNCHANGED <<cmd, clip_paths, label, clip_audio>>
    /\ UNCHANGED <<segVars, scVars, trVars, pvVars>>

FeNext == ExtractAudioFeaturesCall

SpecFeatures == FeInit /\ [][FeNext]_vars

----------------------------------------------------------------------------
(* Properties of extract_audio_features *)

NonFailing(i) == clip_audio[clip_paths[i]] \in {"ok", "nan"}

NonFailingIndices == {i \in 1..Len(clip_paths) : NonFailing(i)}

\* the k-th smallest index of a clip that gives features
KthNonFailing(k) ==
    CHOOSE i \in NonFailingIndices :
        Cardinality({j \in NonFailingIndices : j < i}) = k - 1

\* C4: whatever clips fail, extract_audio_features returns normally with
\* exactly one row per non-failing clip of the list, in input order, each row
\* carrying the given label, its clip's path and that clip's features; failing
\* clips contribute no row.
C4_OneRowPerNonFailingClip ==
    fe_pc = "done" =>
        /\ fe_outcome = "returned"
        /\ Len(features_df) = Cardinality(NonFailingIndices)
        /\ \A k \in 1..Len(features_df) :
             /\ features_df[k].clip_path = clip_paths[KthNonFailing(k)]
             /\ features_df[k].audio = features_df[k].clip_path
             /\ features_df[k].label = label

\* C4 witness: a list in which a failing clip is followed by a non-failing
\* one, and the call has returned a row for the later clip.
C4_Witness ==
    /\ fe_pc = "done"
    /\ \E i, j \in 1..Len(clip_paths) :
         i < j /\ clip_audio[clip_paths[i]] = "empty" /\ NonFailing(j)
    /\ Len(features_df) >= 1

\* C11 (as claimed): a clip of which some computed statistic is NaN is left
\* out of the dataset: the call returns normally, no returned row holds a NaN
\* feature value, and every clip whose statistics are all finite still has
\* its row.
C11_NaNClipExcluded ==
    fe_pc = "done" =>
        /\ fe_outcome = "returned"
        /\ \A k \in 1..Len(features_df) : ~features_df[k].nan
        /\ \A i \in 1..Len(clip_paths) :
             clip_audio[clip_paths[i]] = "ok"
                 => \E k \in 1..Len(features_df) :
                        features_df[k].clip_path = clip_paths[i]

----------------------------------------------------------------------------
(* process_video, train_pipeline.py:23-47, with
   VideoProcessor.process_video_with_timestamps, video_processor.py:30-82 *)

\* video_processor.py:94-130 as a function of the window starts at which
\* ffmpeg fails: the returned list of paths
RECURSIVE ExtractClips(_, _, _, _, _, _, _)
ExtractClips(cur, idx, e, c, cat, base, failing) ==
    IF ~(cur < e) THEN << >>
    ELSE IF TooShort(ClipEnd(cur, c, e) - cur) THEN << >>
    ELSE LET ok == cur \notin failing
             rest == ExtractClips(Advance(cur, c), NextIndex(idx, ok), e, c,
                                  cat, base, failing)
         IN  IF ok THEN <<OutputPath(cat, base, idx)>> \o rest ELSE rest

\* video_processor.py:98-128: the starts of the windows handed to ffmpeg
RECURSIVE WindowStarts(_, _, _)
WindowStarts(cur, e, c) ==
    IF ~(cur < e) \/ TooShort(ClipEnd(cur, c, e) - cur) THEN {}
    ELSE {cur} \cup WindowStarts(Advance(cur, c), e, c)

\* video_processor.py:64, 76: f"ad_{video_path.stem}_{i}" for a video "video"
BaseName(prefix, i) == prefix \o "_video_" \o ToString(i)

\* video_processor.py:59-68, 71-80: the loop over the segments of a category
\* from the i-th on; `failed` holds <<category, segment, start>> of the
\* windows whose ffmpeg run fails
RECURSIVE ProcessSegments(_, _, _, _, _, _)
ProcessSegments(segments, i, prefix, cat, c, failed) ==
    IF i > Len(segments) THEN << >>
    ELSE ExtractClips(segments[i].start, 0, segments[i].end, c, cat,
                      BaseName(prefix, i - 1),
                      {w[3] : w \in {x \in failed : x[1] = cat /\ x[2] = i - 1}})
         \o ProcessSegments(segments, i + 1, prefix, cat, c, failed)

\* every ffmpeg run a call of process_video_with_timestamps can make
CategoryWindows(segments, cat, c) ==
    UNION {{<<cat, i - 1, ss>> :
                ss \in WindowStarts(segments[i].start, segments[i].end, c)} :
           i \in 1..Len(segments)}

AllWindows(ts, c) ==
    CategoryWindows(ts.ads, "ads", c) \cup CategoryWindows(ts.program, "program", c)

\* timestamp files: no, one or two segments per category
SegmentLists ==
    LET a == [start |-> 0, end |-> 4]
        b == [start |-> 2, end |-> 9]
    IN  {<< >>, <<a>>, <<b>>, <<a, a>>}

TimestampFiles == {[ads |-> a, program |-> p] : a, p \in SegmentLists}

\* --clip-duration: the shortest that gives clips, and the default
PvClipDurations == {MinClipSeconds, DefaultClipDuration}

PathSet(paths) == {paths[i] : i \in 1..Len(paths)}

PvInit ==
    /\ cmd = "process_video"
    /\ pv_pc = "segment"
    /\ pv_outcome = "running"
    /\ timestamps \in TimestampFiles
    /\ pv_clip_duration \in PvClipDurations
    /\ generated_clips = [ads |-> << >>, program |-> << >>]
    /\ ffmpeg_failed = {}
    /\ file_audio = << >>
    /\ ad_features = << >>
    /\ program_features = << >>
    /\ combined_features_csv = NoFile
    /\ SegIdle
    /\ FeIdle
    /\ ScIdle
    /\ TrIdle

\* train_pipeline.py:28-32: processor.process_video_with_timestamps(...)
ProcessVideoWithTimestamps ==
    /\ cmd = "process_video"
    /\ pv_pc = "segment"
    /\ \E failed \in SUBSET AllWindows(timestamps, pv_clip_duration) :
         /\ ffmpeg_failed' = failed
         /\ generated_clips' =
              [ads |-> ProcessSegments(timestamps.ads, 1, "ad", "ads",
                                       pv_clip_duration, failed),
               program |-> ProcessSegments(timestamps.program, 1, "program",
                                           "program", pv_clip_duration, failed)]
    /\ pv_pc' = "ad_features"
    /\ UNCHANGED <<cmd, pv_outcome, timestamps, pv_clip_duration, file_audio,
                   ad_features, program_features, combined_features_csv>>
    /\ UNCHANGED <<segVars, feVars, scVars, trVars>>

\* train_pipeline.py:35-36: extract_audio_features(clips['ads'], 'ad')
ExtractAdFeatures ==
    /\ cmd = "process_video"
    /\ pv_pc = "ad_features"
    /\ \E audio \in [PathSet(generated_clips.ads) -> AudioOutcomes] :
         /\ file_audio' = audio
         /\ ad_features' = ExtractAudioFeatures(generated_clips.ads, "ad", audio)
    /\ pv_pc' = "program_features"
    /\ UNCHANGED <<cmd, pv_outcome, timestamps, pv_clip_duration, generated_clips,
                   ffmpeg_failed, program_features, combined_features_csv>>
    /\ UNCHANGED <<segVars, feVars, scVars, trVars>>

\* train_pipeline.py:38-39: extract_audio_features(clips['program'], 'program')
ExtractProgramFeatures ==
    /\ cmd = "process_video"
    /\ pv_pc = "program_features"
    /\ \E audio \in [PathSet(generated_clips.program) -> AudioOutcomes] :
         /\ file_audio' = audio @@ file_audio
         /\ program_features' =
              ExtractAudioFeatures(generated_clips.program, "program", audio)
    /\ pv_pc' = "combine"
    /\ UNCHANGED <<cmd, pv_outcome, timestamps, pv_clip_duration, generated_clips,
                   ffmpeg_failed, ad_features, combined_features_csv>>
    /\ UNCHANGED <<segVars, feVars, scVars, trVars>>

\* train_pipeline.py:42-47.  With both frames non-empty, line 43 evaluates
\* `pd.concat`, and the module never binds `pd` (its imports are lines 5-9):
\* NameError, before save_features is reached.  Otherwise the warning of
\* line 47 is printed and nothing is saved.
CombineAndSave ==
    /\ cmd = "process_video"
    /\ pv_pc = "combine"
    /\ pv_outcome' = (IF ad_features # << >> /\ program_features # << >>
                      THEN "raised" ELSE "completed")
    /\ pv_pc' = "done"
    /\ UNCHANGED <<cmd, timestamps, pv_clip_duration, generated_clips,
                   ffmpeg_failed, file_audio, ad_features, program_features,
                   combined_features_csv>>
    /\ UNCHANGED <<segVars, feVars, scVars, trVars>>

PvNext ==
    \/ ProcessVideoWithTimestamps
    \/ ExtractAdFeatures
    \/ ExtractProgramFeatures
    \/ CombineAndSave

SpecProcess == PvInit /\ [][PvNext]_vars

----------------------------------------------------------------------------
(* Properties of process_video *)

\* the clips of both categories that gave features, ad clips first
ExtractedClips ==
    SelectSeq(generated_clips.ads \o generated_clips.program,
              LAMBDA f : file_audio[f] \in {"ok", "nan"})

\* C12 (as claimed): when process_video is over, it has completed and the
\* persisted table holds exactly one row per clip that gave features, the ad
\* rows (label 'ad') first and the program rows after them, each in clip
\* order; so also when one of the two categories gave no row.  Stated for
\* the runs in which at least one clip gave features.
C12_PersistedAdThenProgram ==
    (pv_pc = "done" /\ Len(ExtractedClips) > 0) =>
        /\ pv_outcome = "completed"
        /\ combined_features_csv.exists
        /\ Len(combined_features_csv.rows) = Len(ExtractedClips)
        /\ \A k \in 1..Len(combined_features_csv.rows) :
             /\ combined_features_csv.rows[k].clip_path = ExtractedClips[k]
             /\ combined_features_csv.rows[k].label =
                  (IF k <= Len(ad_features) THEN "ad" ELSE "program")

----------------------------------------------------------------------------
(* AdDetectorTrainer.prepare_data, model_trainer.py:44-49: the feature names
   of a trainer are the columns of the table without 'label', 'clip_path' *)

PrepareDataFeatureNames(columns) ==
    SelectSeq(columns, LAMBDA c : c \notin {"label", "clip_path"})

\* the columns of the table process_video saves (video_processor.py:149-158)
DatasetColumns == SingleClipFeatureNames \o <<"label", "clip_path">>

----------------------------------------------------------------------------
(* test_model, train_pipeline.py:87-139 *)

\* lines 105-108: what each position of `features` holds: mean and std of
\* each MFCC in turn, then the spectral centroid's mean and std
TestModelFeatureNames ==
    [i \in 1..(2 * NMfcc) |->
        IF i % 2 = 1 THEN "mfcc_" \o ToString((i - 1) \div 2) \o "_mean"
        ELSE "mfcc_" \o ToString((i - 2) \div 2) \o "_std"]
    \o <<"spectral_centroid_mean", "spectral_centroid_std">>

\* a sequence of length n whose first two entries are a and b, the rest fill
Padded(a, b, fill, n) ==
    [i \in 1..n |-> IF i = 1 THEN a ELSE IF i = 2 THEN b ELSE fill]

\* lines 98-108: the vectors a video can give
FeatureVectors ==
    {Padded(a, b, 0, Len(TestModelFeatureNames)) : a, b \in 0..MaxFeature}

\* feature-name lists of the artifacts on disk: one exported by train-models
\* from the table of process-video, one trained on vectors laid out as
\* test_model lays them out, one trained on a two-column table
ArtifactFeatureNames ==
    {PrepareDataFeatureNames(DatasetColumns),
     TestModelFeatureNames,
     SubSeq(SingleClipFeatureNames, 1, 2)}

ModelTypes == {"simple_rules", "logistic_regression", "unknown"}

\* model_trainer.py:279-297: the artifacts of each type (an "unknown" type is
\* a JSON file with some other 'type')
Artifacts ==
    {[type |-> ty,
      feature_names |-> names,
      scaler_mean |-> Padded(m1, m2, 0, Len(names)),
      scaler_scale |-> Padded(s1, s2, 1, Len(names)),
      feature_importances |->
          IF ty = "simple_rules" THEN Padded(w1, w2, 0, Len(names)) ELSE << >>,
      threshold |-> IF ty = "simple_rules" THEN Half ELSE Zero,
      coefficients |->
          IF ty = "logistic_regression" THEN Padded(w1, w2, 0, Len(names))
          ELSE << >>,
      intercept |-> IF ty = "logistic_regression" THEN b ELSE 0] :
        ty \in ModelTypes, names \in ArtifactFeatureNames,
        m1 \in {0, 1}, m2 \in {0, 1}, s1 \in {0, 1, 2}, s2 \in {0, 1, 2},
        w1 \in {0, 1}, w2 \in {0, 1}, b \in {0 - 1, 0}}

\* lines 112-115 without subtracting the mean
NormalizeNoMean(x, m) ==
    [i \in 1..Len(m.scaler_mean) |->
        FDiv(Rat(x[i], 1), Rat(m.scaler_scale[i], 1))]

\* lines 112-115: (features[i] - scaler_mean[i]) / scaler_scale[i] for i in
\* range(len(scaler_mean))
Normalize(x, m) ==
    [i \in 1..Len(m.scaler_mean) |->
        FDiv(FSub(Rat(x[i], 1), Rat(m.scaler_mean[i], 1)),
             Rat(m.scaler_scale[i], 1))]

\* lines 119-122, 127-130: sum(normalized[i] * w[i] for i in range(len))
RECURSIVE SumProducts(_, _, _)
SumProducts(norm, w, n) ==
    IF n = 0 THEN Zero
    ELSE FAdd(SumProducts(norm, w, n - 1), FMul(norm[n], Rat(w[n], 1)))

\* line 123 with >= in place of >
RulePredictionAtLeast(ws, th) == IF FGt(ws, th) \/ ws = th THEN "AD" ELSE "PROGRAM"

\* line 123: "AD" if weighted_sum > threshold else "PROGRAM"
RulePrediction(ws, th) == IF FGt(ws, th) THEN "AD" ELSE "PROGRAM"

\* lines 127-130: intercept + sum(...)
LinearCombination(b, norm, coef) ==
    FAdd(Rat(b, 1), SumProducts(norm, coef, Len(norm)))

\* line 131: 1 / (1 + np.exp(-linear_combination))
Sigmoid(z) == FDiv(Rat(1, 1), FAdd(Rat(1, 1), FExp(FNeg(z))))

\* line 132: "AD" if probability > 0.5 else "PROGRAM"
LogisticPrediction(p) == IF FGt(p, Half) THEN "AD" ELSE "PROGRAM"

\* line 136: f"{probability:.2f}"
FormatTwoDecimals(p) ==
    IF IsFinite(p) THEN Rat((2 * 100 * p.n + p.d) \div (2 * p.d), 100) ELSE p

\* line 111: len(features) >= len(model['scaler_mean'])
LongEnough(x, m) == Len(x) >= Len(m.scaler_mean)

ScInit ==
    /\ cmd = "test_model"
    /\ sc_pc = "call"
    /\ sc_outcome = "pending"
    /\ model \in Artifacts
    /\ features \in FeatureVectors
    /\ normalized_features = << >>
    /\ score = NoScore
    /\ prediction = "none"
    /\ confidence = NoConfidence
    /\ SegIdle
    /\ FeIdle
    /\ TrIdle
    /\ PvIdle

\* lines 111-139: the whole of test_model after the vector is computed
TestModel ==
    /\ cmd = "test_model"
    /\ sc_pc = "call"
    /\ sc_pc' = "done"
    /\ IF LongEnough(features, model)
       THEN LET norm == Normalize(features, model)
            IN  /\ normalized_features' = norm
                /\ CASE model.type = "simple_rules" ->
                          LET ws == SumProducts(norm, model.feature_importances,
                                                Len(norm))
                          IN  /\ score' = [score EXCEPT !.weighted_sum = ws]
                              /\ prediction' = RulePrediction(ws, model.threshold)
                              /\ confidence' = NoConfidence
                              /\ sc_outcome' = "prediction"
                     [] model.type = "logistic_regression" ->
                          LET z == LinearCombination(model.intercept, norm,
                                                     model.coefficients)
                              p == Sigmoid(z)
                          IN  /\ score' = [score EXCEPT !.linear_combination = z,
                                                        !.probability = p]
                              /\ prediction' = LogisticPrediction(p)
                              /\ confidence' = [printed |-> TRUE,
                                                value |-> FormatTwoDecimals(p)]
                              /\ sc_outcome' = "prediction"
                     [] OTHER ->
                          \* line 134: `prediction` was never assigned
                          /\ sc_outcome' = "crash"
                          /\ UNCHANGED <<score, prediction, confidence>>
       ELSE /\ sc_outcome' = "dimension_mismatch"
            /\ UNCHANGED <<normalized_features, score, prediction, confidence>>
    /\ UNCHANGED <<cmd, model, features>>
    /\ UNCHANGED <<segVars, feVars, trVars, pvVars>>

ScNext == TestModel

SpecScore == ScInit /\ [][ScNext]_vars

----------------------------------------------------------------------------
(* Properties of test_model *)

MatchingLength == Len(features) = Len(model.scaler_mean)

PositiveScales == \A i \in 1..Len(model.scaler_scale) : model.scaler_scale[i] > 0

TrainedOnDataset == model.feature_names = PrepareDataFeatureNames(DatasetColumns)

\* the product of the integers of a sequence
RECURSIVE Product(_)
Product(sq) == IF sq = << >> THEN 1 ELSE Head(sq) * Product(Tail(sq))

\* sum over i of w[i] * (x[i] - mean[i]) * (p / scale[i]), an integer when p is
\* the product of the (positive) scales: p times the weighted sum of the
\* standardized vector
RECURSIVE ScaledSum(_, _, _)
ScaledSum(w, p, n) ==
    IF n = 0 THEN 0
    ELSE ScaledSum(w, p, n - 1)
         + w[n] * (features[n] - model.scaler_mean[n]) * (p \div model.scaler_scale[n])

\* C2 (as claimed): for an artifact exported from the table of extracted
\* clips, the vector test_model scores has the length of feature_names and
\* position i holds the feature named feature_names[i].
C2_SameFeatureOrder ==
    (sc_pc = "done" /\ TrainedOnDataset)
    => /\ Len(features) = Len(model.feature_names)
       /\ \A i \in 1..Len(features) :
            TestModelFeatureNames[i] = model.feature_names[i]

\* C3 (as claimed): when the vector's length differs from the model's, scoring
\* ends with the dimension-mismatch error and no decision, and no part of the
\* vector is scored.
C3_MismatchIsAnError ==
    (sc_pc = "done" /\ ~MatchingLength)
    => /\ sc_outcome = "dimension_mismatch"
       /\ prediction = "none"
       /\ normalized_features = << >>

\* C6: for a logistic_regression artifact and a vector of matching length a
\* decision is made: AD exactly when probability > 0.5, PROGRAM otherwise, and
\* the probability is printed as the confidence (to two decimals).  With
\* positive scales, linear_combination is intercept + sum of
\* coefficients[i] * (x[i] - mean[i]) / scale[i], the probability is finite and
\* exceeds 0.5 exactly when z > 0 (it is 0.5 exactly when z = 0); intercept 0,
\* coefficients [1,0,...], mean 0, scale 1 and vector [2,0,...] give z = 2,
\* probability 0.88 and AD.
C6_LogisticScoring ==
    (/\ sc_pc = "done"
     /\ model.type = "logistic_regression"
     /\ MatchingLength)
    => LET p == Product(model.scaler_scale)
           zn == model.intercept * p
                 + ScaledSum(model.coefficients, p, Len(features))
           pr == score.probability
       IN  /\ sc_outcome = "prediction"
           /\ prediction =
                (IF IsFinite(pr) /\ 2 * pr.n > pr.d THEN "AD" ELSE "PROGRAM")
           /\ confidence.printed
           /\ IsFinite(pr) =>
                /\ IsFinite(confidence.value)
                /\ 200 * Abs(confidence.value.n * pr.d - pr.n * confidence.value.d)
                       <= pr.d * confidence.value.d
           /\ ~IsFinite(pr) => confidence.value = pr
           /\ PositiveScales =>
                /\ score.linear_combination = Rat(zn, p)
                /\ IsFinite(pr)
                /\ prediction = (IF zn > 0 THEN "AD" ELSE "PROGRAM")
                /\ (zn = 0) = (2 * pr.n = pr.d)
           /\ (/\ model.intercept = 0
               /\ model.coefficients = Padded(1, 0, 0, Len(features))
               /\ model.scaler_mean = Padded(0, 0, 0, Len(features))
               /\ model.scaler_scale = Padded(1, 1, 1, Len(features))
               /\ features = Padded(2, 0, 0, Len(features)))
              => /\ score.linear_combination = Rat(2, 1)
                 /\ confidence.value = Rat(88, 100)
                 /\ prediction = "AD"

\* C6 witness: the scenario of the specification has been scored.
C6_Witness ==
    /\ sc_pc = "done"
    /\ model.type = "logistic_regression"
    /\ model.intercept = 0
    /\ model.coefficients = Padded(1, 0, 0, Len(features))
    /\ model.scaler_mean = Padded(0, 0, 0, Len(features))
    /\ model.scaler_scale = Padded(1, 1, 1, Len(features))
    /\ features = Padded(2, 0, 0, Len(features))
    /\ prediction = "AD"

C10_ZeroScaleGuarded ==
    (/\ sc_pc = "done"
     /\ MatchingLength
     /\ \E i \in 1..Len(model.scaler_scale) : model.scaler_scale[i] = 0)
    => \/ sc_outcome = "degenerate_feature"
       \/ /\ Len(normalized_features) = Len(model.scaler_scale)
          /\ \A i \in 1..Len(normalized_features) :
               normalized_features[i] =
                   Rat(features[i] - model.scaler_mean[i],
                       IF model.scaler_scale[i] = 0 THEN 1
                       ELSE model.scaler_scale[i])

\* C16 (as claimed): whatever artifact is loaded and whatever vector is
\* computed, test_model ends in one of two ways: a prediction, AD or PROGRAM,
\* is reported, or the feature dimension mismatch error is reported and no
\* prediction; so also for an artifact whose type is neither simple_rules
\* nor logistic_regression.
C16_PredictionOrMismatch ==
    sc_pc = "done" =>
        \/ sc_outcome = "prediction" /\ prediction \in {"AD", "PROGRAM"}
        \/ sc_outcome = "dimension_mismatch" /\ prediction = "none"

----------------------------------------------------------------------------
(* AdDetectorTrainer, model_trainer.py:24-304.  Fitted numbers are kept as
   what they are statistics of: the column and the table they were computed
   from. *)

\* the tables a caller can load: the one process-video saves, one in the
\* layout of test_model's vector, and two two-column tables
Tables ==
    {[table |-> "combined_features", columns |-> DatasetColumns],
     [table |-> "test_layout",
      columns |-> TestModelFeatureNames \o <<"label", "clip_path">>],
     [table |-> "two_columns",
      columns |-> <<"mfcc_0_mean", "mfcc_1_mean", "label", "clip_path">>],
     [table |-> "two_columns_swapped",
      columns |-> <<"mfcc_1_mean", "mfcc_0_mean", "label", "clip_path">>]}

\* a fitted per-column array: entry i is the statistic `stat` of column i
FittedArray(stat, data) ==
    [i \in 1..Len(data.columns) |->
        [stat |-> stat, of |-> data.columns[i], table |-> data.table]]

\* lines 274-286 exporting the table's columns as feature_names
RandomForestArtifactAllColumns(names, mdl, sc, now) ==
    [type |-> "simple_rules",
     feature_names |-> names \o <<"label", "clip_path">>,
     weights |-> mdl.weights,
     scaler_mean |-> sc.mean_,
     scaler_scale |-> sc.scale_,
     trained_at |-> mdl.at,
     exported_at |-> now]

\* lines 274-286: the simple_rules artifact (threshold 0.5)
RandomForestArtifact(names, mdl, sc, now) ==
    [type |-> "simple_rules",
     feature_names |-> names,
     weights |-> mdl.weights,
     scaler_mean |-> sc.mean_,
     scaler_scale |-> sc.scale_,
     trained_at |-> mdl.at,
     exported_at |-> now]

\* lines 288-297: the logistic_regression artifact
LogisticRegressionArtifact(names, mdl, sc, now) ==
    [type |-> "logistic_regression",
     feature_names |-> names,
     weights |-> mdl.weights,
     scaler_mean |-> sc.mean_,
     scaler_scale |-> sc.scale_,
     trained_at |-> mdl.at,
     exported_at |-> now]

\* lines 27-33: a new trainer
TrInit ==
    /\ cmd = "train_models"
    /\ tr_pc = "ready"
    /\ feature_names = << >>
    /\ scaler = UnfittedScaler
    /\ models = NoModels
    /\ X_train = NoData
    /\ exported = {}
    /\ prepared = 0
    /\ calls = 0
    /\ SegIdle
    /\ FeIdle
    /\ ScIdle
    /\ PvIdle

\* lines 42-66: prepare_data(df)
PrepareData ==
    /\ cmd = "train_models"
    /\ tr_pc = "ready"
    /\ calls < MaxCalls
    /\ \E df \in Tables :
         LET X == [table |-> df.table,
                   columns |-> PrepareDataFeatureNames(df.columns)]
         IN  /\ feature_names' = X.columns
             /\ scaler' = [fitted |-> TRUE,
                           mean_ |-> FittedArray("mean", X),
                           scale_ |-> FittedArray("scale", X)]
             /\ X_train' = X
    /\ prepared' = prepared + 1
    /\ calls' = calls + 1
    /\ UNCHANGED <<cmd, tr_pc, models, exported>>
    /\ UNCHANGED <<segVars, feVars, scVars, pvVars>>

\* lines 68-98: train_random_forest(X_train, y_train)
TrainRandomForest ==
    /\ cmd = "train_models"
    /\ tr_pc = "ready"
    /\ calls < MaxCalls
    /\ X_train # NoData
    /\ models' = [models EXCEPT !["random_forest"] =
                     [trained |-> TRUE,
                      weights |-> FittedArray("importance", X_train),
                      at |-> prepared]]
    /\ calls' = calls + 1
    /\ UNCHANGED <<cmd, tr_pc, feature_names, scaler, X_train, exported, prepared>>
    /\ UNCHANGED <<segVars, feVars, scVars, pvVars>>

\* lines 100-129: train_logistic_regression(X_train, y_train)
TrainLogisticRegression ==
    /\ cmd = "train_models"
    /\ tr_pc = "ready"
    /\ calls < MaxCalls
    /\ X_train # NoData
    /\ models' = [models EXCEPT !["logistic_regression"] =
                     [trained |-> TRUE,
                      weights |-> FittedArray("coefficient", X_train),
                      at |-> prepared]]
    /\ calls' = calls + 1
    /\ UNCHANGED <<cmd, tr_pc, feature_names, scaler, X_train, exported, prepared>>
    /\ UNCHANGED <<segVars, feVars, scVars, pvVars>>

\* lines 266-304: create_simple_js_model(model_name)
CreateSimpleJsModel ==
    /\ cmd = "train_models"
    /\ tr_pc = "ready"
    /\ calls < MaxCalls
    /\ \E model_name \in ModelNames :
         IF ~models[model_name].trained
         THEN \* lines 268-270: "Model ... not found", nothing is written
              UNCHANGED exported
         ELSE exported' = exported \cup
                {IF model_name = "random_forest"
                 THEN RandomForestArtifact(feature_names, models[model_name],
                                           scaler, prepared)
                 ELSE LogisticRegressionArtifact(feature_names, models[model_name],
                                                 scaler, prepared)}
    /\ calls' = calls + 1
    /\ UNCHANGED <<cmd, tr_pc, feature_names, scaler, models, X_train, prepared>>
    /\ UNCHANGED <<segVars, feVars, scVars, pvVars>>

TrNext ==
    \/ PrepareData
    \/ TrainRandomForest
    \/ TrainLogisticRegression
    \/ CreateSimpleJsModel

SpecTrainer == TrInit /\ [][TrNext]_vars

----------------------------------------------------------------------------
(* Properties of AdDetectorTrainer *)

\* feature_names, weights, scaler_mean and scaler_scale of an artifact have
\* one length and entry i of each belongs to the feature feature_names[i] of
\* one table
ArtifactConsistent(a) ==
    /\ Len(a.weights) = Len(a.feature_names)
    /\ Len(a.scaler_mean) = Len(a.feature_names)
    /\ Len(a.scaler_scale) = Len(a.feature_names)
    /\ \A i \in 1..Len(a.feature_names) :
         /\ a.weights[i].of = a.feature_names[i]
         /\ a.scaler_mean[i].of = a.feature_names[i]
         /\ a.scaler_scale[i].of = a.feature_names[i]
         /\ a.weights[i].table = a.scaler_mean[i].table
         /\ a.scaler_scale[i].table = a.scaler_mean[i].table

\* C9 (as claimed): after any sequence of prepare_data, train_* and
\* create_simple_js_model calls, every exported artifact has feature_names,
\* coefficients / feature_importances, scaler_mean and scaler_scale of one
\* length, index i of each referring to the same feature.
C9_EveryArtifactConsistent == \A a \in exported : ArtifactConsistent(a)

\* C9 (amended): every artifact exported from a model that was trained on the
\* output of the trainer's latest prepare_data call (no prepare_data between
\* its training and its export, as in train_models and main) has arrays of
\* one length, index i of each referring to the same feature.
C9_FreshArtifactConsistent ==
    \A a \in exported : a.trained_at = a.exported_at => ArtifactConsistent(a)

\* C9 witness: after a second prepare_data, a model trained on its output has
\* been exported.
C9_Witness ==
    /\ prepared >= 2
    /\ \E a \in exported : a.trained_at = 2 /\ a.exported_at = 2

----------------------------------------------------------------------------
(* The entry points together *)

Init == SegInit \/ SampleInit \/ FeInit \/ ScInit \/ TrInit \/ PvInit

Next == SegNext \/ FeNext \/ ScNext \/ TrNext \/ PvNext

Spec == Init /\ [][Next]_vars

====
